---- MODULE Spec2Model ----
(***************************************************************************)
(* R2P2 core protocol engine (src/r2p2/r2p2-common.c).                     *)
(*                                                                         *)
(* Two hosts run the engine: the originator (client pairs) and its peer    *)
(* (server pairs).  They are joined by two datagram queues.  The network   *)
(* may deliver any queued datagram, deliver it without consuming it        *)
(* (duplicate), drop it, or hand a host a datagram that is not an R2P2     *)
(* packet.  The header codec, the object pool, the                         *)
(* pending lists, the buffers and the timers live outside this file; they  *)
(* are modelled from the interface the engine uses.                        *)
(***************************************************************************)
EXTENDS Integers, Sequences, FiniteSets, TLC

(* ------------------------------ bounds -------------------------------- *)
MaxReq == 1
MaxSeqReq == 2
MaxDup == 1
MaxLost == 1
MaxRaw == 1
CLIENT_POOL == 2
SERVER_POOL == 3

(* ------------------------ protocol constants -------------------------- *)
PAYLOAD_SIZE == 3
MIN_PAYLOAD_SIZE == 1
HEADER_SIZE == 8
ACK_LEN == 3
REQUEST_MSG == 0
RESPONSE_MSG == 1
ACK_MSG == 3
MAGIC == 204
to_app_iovec_entries == 8
FIXED_ROUTE == 0
F_FLAG == "F"
L_FLAG == "L"
R2P2_W_ACK == "W_ACK"
R2P2_W_RESPONSE == "W_RESPONSE"
ack_payload == <<65, 67, 75>>

Rids == {1, 2}
ClientHost == [ip |-> 1, port |-> 1]
ServerHost == [ip |-> 2, port |-> 2]
NoHost == [ip |-> 0, port |-> 0]

(* ------------------------------ helpers ------------------------------- *)
min(a, b) == IF a < b THEN a ELSE b

RECURSIVE Concat(_)
Concat(iov) == IF iov = <<>> THEN <<>> ELSE Head(iov) \o Concat(Tail(iov))

RECURSIVE SumLen(_)
SumLen(iov) == IF iov = <<>> THEN 0 ELSE Len(Head(iov)) + SumLen(Tail(iov))

(* ---------------------------- header codec ---------------------------- *)
type_policy(req_type, policy) == (req_type * 16) + (policy % 16)
get_type(h) == h.type_policy \div 16
is_first(h) == F_FLAG \in h.flags
is_last(h) == L_FLAG \in h.flags
is_response(h) == get_type(h) \in {RESPONSE_MSG, ACK_MSG}

(* ------------------------------ buffers ------------------------------- *)
NewBuffer_counts_from_one(req_type, policy, req_id, buffer_cnt) ==
  [magic |-> MAGIC, type_policy |-> type_policy(req_type, policy),
   flags |-> {}, rid |-> req_id, p_order |-> (buffer_cnt + 1) % 256,
   data |-> <<>>, size |-> 0]

\* a fresh buffer with the header r2p2_prepare_msg writes into it
NewBuffer(req_type, policy, req_id, buffer_cnt) ==
  [magic |-> MAGIC, type_policy |-> type_policy(req_type, policy),
   flags |-> {}, rid |-> req_id, p_order |-> buffer_cnt % 256, data |-> <<>>, size |-> 0]

set_buffer_payload_size(gb, n) == [gb EXCEPT !.size = n]

SetLast(chain, gb) == [chain EXCEPT ![Len(chain)] = gb]

\* the datagram the transport emits for one buffer: payload_size bytes of it
Datagram(gb) ==
  [gb EXCEPT !.data = SubSeq(gb.data, 1, min(Len(gb.data), gb.size - HEADER_SIZE))]

buf_list_send(chain) == [i \in 1..Len(chain) |-> Datagram(chain[i])]

r2p2_msg_add_payload(chain, gb) == Append(chain, gb)

(* --------------------------- r2p2_prepare_msg ------------------------- *)
\* capacity of a newly allocated buffer (lines 268-271)
BufferCapacity(is_first_buf, single_packet_msg) ==
  IF is_first_buf /\ ~single_packet_msg THEN MIN_PAYLOAD_SIZE ELSE PAYLOAD_SIZE

\* size given to the previous buffer when a new one is allocated (256-264)
ClosedSize(is_first_buf) ==
  IF is_first_buf THEN MIN_PAYLOAD_SIZE + HEADER_SIZE
  ELSE PAYLOAD_SIZE + HEADER_SIZE

\* the copy loop, lines 251-293; st = [iov_idx, bufferleft, copied, chain, is_first]
RECURSIVE PrepareLoop(_, _, _, _, _, _)
PrepareLoop(iov, req_type, policy, req_id, single_packet_msg, st) ==
  IF st.iov_idx > Len(iov) THEN st
  ELSE
    LET alloc == st.bufferleft = 0
        closing == alloc /\ st.chain # <<>>
        closed == IF closing
                  THEN SetLast(st.chain,
                         set_buffer_payload_size(st.chain[Len(st.chain)],
                                                 ClosedSize(st.is_first)))
                  ELSE st.chain
        first1 == IF closing THEN FALSE ELSE st.is_first
        chain1 == IF alloc
                  THEN r2p2_msg_add_payload(closed,
                         NewBuffer(req_type, policy, req_id, Len(closed)))
                  ELSE closed
        left1 == IF alloc THEN BufferCapacity(first1, single_packet_msg)
                 ELSE st.bufferleft
        src == iov[st.iov_idx]
        tocopy == min(left1, Len(src) - st.copied)
        gb == chain1[Len(chain1)]
        gb1 == [gb EXCEPT !.data = @ \o SubSeq(src, st.copied + 1, st.copied + tocopy)]
        fin == st.copied + tocopy = Len(src)
    IN PrepareLoop(iov, req_type, policy, req_id, single_packet_msg,
         [iov_idx |-> IF fin THEN st.iov_idx + 1 ELSE st.iov_idx,
          bufferleft |-> left1 - tocopy,
          copied |-> IF fin THEN 0 ELSE st.copied + tocopy,
          chain |-> SetLast(chain1, gb1),
          is_first |-> first1])

\* r2p2_prepare_msg on an empty message, iovcnt >= 1: the chain of buffers
r2p2_prepare_msg(iov, req_type, policy, req_id) ==
  LET single_packet_msg == SumLen(iov) <= PAYLOAD_SIZE
      st == PrepareLoop(iov, req_type, policy, req_id, single_packet_msg,
              [iov_idx |-> 1, bufferleft |-> 0, copied |-> 0,
               chain |-> <<>>, is_first |-> TRUE])
      n == Len(st.chain)
      sized == SetLast(st.chain,
                 set_buffer_payload_size(st.chain[n],
                   PAYLOAD_SIZE + HEADER_SIZE - st.bufferleft))
      headed == [sized EXCEPT ![1] = [@ EXCEPT !.flags = @ \cup {F_FLAG},
                                               !.p_order = n % 256]]
  IN [headed EXCEPT ![n] = [@ EXCEPT !.flags = @ \cup {L_FLAG}]]

\* prepare_to_app_iovec: one entry per buffer, the bytes after the header
prepare_to_app_iovec(chain) ==
  [i \in 1..Len(chain) |->
     SubSeq(chain[i].data, 1, min(Len(chain[i].data), chain[i].size - HEADER_SIZE))]

(* ------------------------ application inputs -------------------------- *)
\* payload vectors are built from fragment lengths; byte i of the payload
\* that starts at `start` is start + i, so every request and every response
\* carries bytes that name it
RECURSIVE MkVec(_, _)
MkVec(shape, start) ==
  IF shape = <<>> THEN <<>>
  ELSE <<[i \in 1..Head(shape) |-> start + i]>>
         \o MkVec(Tail(shape), start + Head(shape))

ReqShapes == {<<1>>, <<PAYLOAD_SIZE, 0>>, <<PAYLOAD_SIZE, MIN_PAYLOAD_SIZE + 1>>}
RespShapes == {<<ACK_LEN>>, <<PAYLOAD_SIZE, 0>>, <<PAYLOAD_SIZE, MIN_PAYLOAD_SIZE + 1>>}

ReqVector(n, shape) == MkVec(shape, 10 * n)
RespVector(tag, shape) == MkVec(shape, 100 + (10 * tag))

\* the request a delivered payload names (0: none)
Tag(iovec) ==
  LET d == Concat(iovec) IN IF d = <<>> THEN 0 ELSE (d[1] % 100) \div 10

(* ------------------------------- state -------------------------------- *)
VARIABLES
  client_pairs,          \* pool of client pairs, by slot
  pending_client_pairs,  \* list of slots, newest first
  timers,                \* timers[slot]: a timeout is armed for that slot
  server_pairs,          \* pool of server pairs, by slot
  pending_server_pairs,  \* list of slots, newest first
  toServer,              \* datagrams in flight to the peer
  toClient,              \* datagrams in flight to the originator
  reqs,                  \* send_request calls so far: [rid, iov]; arg = index
  cb,                    \* cb[arg]: what the three callbacks were called with
  doneDue,               \* handles success_cb handed out, recv_resp_done due
  rfnLog,                \* receive-callback invocations: [h, iovec]
  srvDue,                \* handles rfn handed out, send_response due
  rspLog,                \* send_response calls so far: [tag, iov]
  net,                   \* what the network did: [dups, lost, reordered, raw]
  hist,                  \* pool accounting: frees per request, bad frees,
                         \* inbound buffers lost, the assertion that failed
  aborted,               \* a failed assertion stopped the process
  assembled              \* the last message r2p2_prepare_msg was asked for
                         \* on its own: [iov, chain]

clientVars == <<client_pairs, pending_client_pairs, timers, toServer, cb, doneDue>>
serverVars == <<server_pairs, pending_server_pairs, toClient, rfnLog, srvDue>>
vars == <<client_pairs, pending_client_pairs, timers, server_pairs,
          pending_server_pairs, toServer, toClient, reqs, cb, doneDue,
          rfnLog, srvDue, rspLog, net, hist, aborted, assembled>>

\* the values of ctx->arg: the requests of a run, numbered
Args == 1..(MaxReq + MaxSeqReq)

FreeCP ==
  [taken |-> FALSE, arg |-> 0, state |-> "none", req_id |-> 0, port |-> 0,
   request |-> <<>>, reply |-> <<>>, reply_sender |-> NoHost,
   reply_expected_packets |-> 0, reply_received_packets |-> 0,
   timer |-> FALSE]

FreeSP ==
  [taken |-> FALSE, req_id |-> 0, sender |-> NoHost, request |-> <<>>,
   request_expected_packets |-> 0, request_received_packets |-> 0]

Init ==
  /\ client_pairs = [s \in 1..CLIENT_POOL |-> FreeCP]
  /\ pending_client_pairs = <<>>
  /\ timers = [s \in 1..CLIENT_POOL |-> FALSE]
  /\ server_pairs = [s \in 1..SERVER_POOL |-> FreeSP]
  /\ pending_server_pairs = <<>>
  /\ toServer = <<>>
  /\ toClient = <<>>
  /\ reqs = <<>>
  /\ cb = [n \in Args |-> [success |-> <<>>, error |-> 0, timeout |-> 0]]
  /\ doneDue = <<>>
  /\ rfnLog = <<>>
  /\ srvDue = <<>>
  /\ rspLog = <<>>
  /\ net = [dups |-> 0, lost |-> <<>>, reordered |-> FALSE, raw |-> 0]
  /\ hist = [cpFrees |-> [n \in Args |-> 0], cpFreeWhileFree |-> FALSE,
             spFreeWhileFree |-> FALSE, gbLost |-> FALSE, failed |-> 0]
  /\ aborted = FALSE
  /\ assembled = [iov |-> <<>>, chain |-> <<>>]

(* --------------------------- pool and lists --------------------------- *)
\* alloc_object: a free slot of the pool, 0 when the pool is exhausted
alloc_object(pool) ==
  IF \E s \in DOMAIN pool : ~pool[s].taken
  THEN CHOOSE s \in DOMAIN pool :
         ~pool[s].taken /\ \A t \in DOMAIN pool : ~pool[t].taken => s <= t
  ELSE 0

add_to_list(list, s) == <<s>> \o list

remove_from_list(list, s) == SelectSeq(list, LAMBDA t : t # s)

InList(list, s) == \E i \in 1..Len(list) : list[i] = s

RemoveAt(q, i) == SubSeq(q, 1, i - 1) \o SubSeq(q, i + 1, Len(q))

\* first element of a list of slots whose flag is set, 0 for NULL
FirstHit(list, hit) ==
  IF \E i \in 1..Len(list) : hit[list[i]]
  THEN list[CHOOSE i \in 1..Len(list) :
              hit[list[i]] /\ \A j \in 1..(i - 1) : ~hit[list[j]]]
  ELSE 0

find_in_pending_server_pairs(req_id, sender) ==
  FirstHit(pending_server_pairs,
    [s \in 1..SERVER_POOL |->
       /\ server_pairs[s].sender.ip = sender.ip
       /\ server_pairs[s].sender.port = sender.port
       /\ server_pairs[s].req_id = req_id])

find_in_pending_client_pairs(req_id, sender) ==
  FirstHit(pending_client_pairs,
    [s \in 1..CLIENT_POOL |->
       /\ client_pairs[s].port = sender.port
       /\ client_pairs[s].req_id = req_id])

\* free_client_pair / free_server_pair: the slot as free_object leaves it.
\* The buffers of both chains are released; a server pair's req_id and
\* sender stay readable in the pool memory until the slot is allocated again.
free_client_pair_leak(pool, s) == pool

free_client_pair(pool, s) == [pool EXCEPT ![s] = FreeCP]

free_server_pair(pool, s) ==
  [pool EXCEPT ![s] = [FreeSP EXCEPT !.req_id = pool[s].req_id,
                                     !.sender = pool[s].sender]]

\* accounting of one free of client slot s
CountCpFree(s) ==
  IF client_pairs[s].taken
  THEN [hist EXCEPT !.cpFrees[client_pairs[s].arg] = @ + 1]
  ELSE [hist EXCEPT !.cpFreeWhileFree = TRUE]

\* accounting of one free of server slot s, as the handler's effect e has it
CountSpFree(e, s) ==
  IF e.pairs[s].taken THEN e.hist ELSE [e.hist EXCEPT !.spFreeWhileFree = TRUE]

\* a failed assert() stops the process; line: where it stands in the source
assert_failed(e, line) == [e EXCEPT !.aborted = TRUE, !.hist.failed = line]

\* prepare_to_app_iovec, line 200: the assertion after each entry.  The
\* vector has to_app_iovec_entries entries, 0xFF in the source and scaled
\* down here as the payload sizes are.
iovcnt_asserted(chain) == Len(chain) >= to_app_iovec_entries

(* ------------------------- client state machine ----------------------- *)
\* what a handler on the originator leaves behind; out: datagrams it sent
ClientSame ==
  [pairs |-> client_pairs, pending |-> pending_client_pairs, timers |-> timers,
   out |-> <<>>, cb |-> cb, doneDue |-> doneDue, hist |-> hist,
   aborted |-> FALSE]

\* the sequence check of lines 347 and 439 (value before the increment)
OutOfOrder(p_order, received_packets) == p_order # received_packets

ClientError_stays_pending(e, s) ==
  [e EXCEPT !.cb[client_pairs[s].arg].error = @ + 1,
            !.pairs = free_client_pair(client_pairs, s),
            !.hist = CountCpFree(s)]

\* lines 349-351 and 364-366: error_cb(arg, -1), remove from pending, free
ClientError(e, s) ==
  [e EXCEPT !.cb[client_pairs[s].arg].error = @ + 1,
            !.pending = remove_from_list(pending_client_pairs, s),
            !.pairs = free_client_pair(client_pairs, s),
            !.hist = CountCpFree(s)]

\* the remainder transmitted after the ACK, lines 387-392
LINUX == TRUE
rest_to_send(request) == IF LINUX THEN Tail(request) ELSE request

handle_response(gb, len, source, local_host) ==
  LET s == find_in_pending_client_pairs(gb.rid, local_host) IN
  IF s = 0 THEN ClientSame
  ELSE
    LET cp == client_pairs[s] IN
    IF cp.state = R2P2_W_RESPONSE THEN
      LET first == is_first(gb)
          cp1 == [cp EXCEPT
                    !.reply_sender = source,
                    !.reply = r2p2_msg_add_payload(@, set_buffer_payload_size(gb, len)),
                    !.reply_expected_packets = IF first THEN gb.p_order ELSE @,
                    !.reply_received_packets = IF first THEN 1 ELSE @ + 1]
          disarmed == IF cp.timer THEN [timers EXCEPT ![s] = FALSE] ELSE timers
      IN
      IF ~first /\ OutOfOrder(gb.p_order, cp.reply_received_packets)
      THEN ClientError(ClientSame, s)
      ELSE IF ~is_last(gb)
      THEN [ClientSame EXCEPT !.pairs[s] = cp1]
      ELSE IF cp1.reply_received_packets # cp1.reply_expected_packets
      THEN ClientError([ClientSame EXCEPT !.timers = disarmed], s)
      ELSE IF iovcnt_asserted(cp1.reply)
      THEN assert_failed(ClientSame, 200)
      ELSE [ClientSame EXCEPT
              !.pairs[s] = cp1,
              !.timers = disarmed,
              !.cb[cp.arg].success = Append(@, prepare_to_app_iovec(cp1.reply)),
              !.doneDue = Append(@, s)]
    ELSE
      IF cp.state # R2P2_W_ACK THEN assert_failed(ClientSame, 383)
      ELSE IF len # HEADER_SIZE + 3 THEN assert_failed(ClientSame, 384)
      ELSE [ClientSame EXCEPT
              !.pairs[s] = [cp EXCEPT !.reply_sender = source,
                                      !.state = R2P2_W_RESPONSE],
              !.out = buf_list_send(rest_to_send(cp.request))]

timer_triggered_no_free(s) ==
  IF ~client_pairs[s].taken THEN ClientSame
  ELSE [ClientSame EXCEPT !.cb[client_pairs[s].arg].timeout = @ + 1]

\* timer_triggered, for the pair the timer was armed with
timer_triggered(s) ==
  IF ~client_pairs[s].taken THEN ClientSame
  ELSE [ClientSame EXCEPT
          !.cb[client_pairs[s].arg].timeout = @ + 1,
          !.pending = remove_from_list(pending_client_pairs, s),
          !.pairs = free_client_pair(client_pairs, s),
          !.hist = CountCpFree(s)]

InitialState_always_response(request) == R2P2_W_RESPONSE

\* lines 554-556
InitialState(request) ==
  IF Len(request) = 1 THEN R2P2_W_RESPONSE ELSE R2P2_W_ACK

\* lines 560-563: only the head buffer is put on the wire
FirstToSend(request) == <<Head(request)>>

\* lines 564-568: the chain the pair keeps
KeptRequest(request) == IF LINUX THEN request ELSE Tail(request)

\* r2p2_send_req, prepare_to_send having succeeded; ctx: [arg, rid]
r2p2_send_req(iov, ctx) ==
  LET s == alloc_object(client_pairs) IN
  IF s = 0 THEN assert_failed(ClientSame, 56)
  ELSE
    LET request == r2p2_prepare_msg(iov, REQUEST_MSG, FIXED_ROUTE, ctx.rid)
        cp == [FreeCP EXCEPT !.taken = TRUE, !.arg = ctx.arg,
                             !.port = ClientHost.port, !.timer = TRUE,
                             !.req_id = ctx.rid,
                             !.state = InitialState(request),
                             !.request = KeptRequest(request)]
    IN [ClientSame EXCEPT
          !.pairs[s] = cp,
          !.timers[s] = TRUE,
          !.pending = add_to_list(pending_client_pairs, s),
          !.out = buf_list_send(FirstToSend(request))]

r2p2_recv_resp_done(handle) ==
  [ClientSame EXCEPT
     !.pending = remove_from_list(pending_client_pairs, handle),
     !.pairs = free_client_pair(client_pairs, handle),
     !.hist = CountCpFree(handle)]

(* ------------------------- server state machine ----------------------- *)
ServerSame ==
  [pairs |-> server_pairs, pending |-> pending_server_pairs, out |-> <<>>,
   rfnLog |-> rfnLog, srvDue |-> srvDue, hist |-> hist, aborted |-> FALSE]

\* lines 441-442 and 454-455: remove from pending, free
ServerFail(e, s) ==
  [e EXCEPT !.pending = remove_from_list(e.pending, s),
            !.pairs = free_server_pair(e.pairs, s),
            !.hist = CountSpFree(e, s)]

\* lines 446-459, for the pair sp in slot s
AcceptRequestPacket(e, s, sp, gb, len) ==
  LET sp1 == [sp EXCEPT !.request =
                r2p2_msg_add_payload(@, set_buffer_payload_size(gb, len))]
      e1 == [e EXCEPT !.pairs[s] = sp1]
  IN
  IF ~is_last(gb) THEN e1
  ELSE IF sp1.request_received_packets # sp1.request_expected_packets
  THEN ServerFail(e1, s)
  ELSE IF iovcnt_asserted(sp1.request)
  THEN assert_failed(e, 200)
  ELSE [e1 EXCEPT
          !.rfnLog = Append(@, [h |-> s, iovec |-> prepare_to_app_iovec(sp1.request)]),
          !.srvDue = Append(@, [h |-> s,
                                tag |-> Tag(prepare_to_app_iovec(sp1.request))])]

handle_request(gb, len, source) ==
  IF is_first(gb) THEN
    LET s == alloc_object(server_pairs) IN
    IF s = 0 THEN assert_failed(ServerSame, 95)
    ELSE
      LET sp == [FreeSP EXCEPT !.taken = TRUE, !.sender = source,
                               !.req_id = gb.rid,
                               !.request_expected_packets = gb.p_order,
                               !.request_received_packets = 1]
          e == IF ~is_last(gb)
               THEN [ServerSame EXCEPT
                       !.pending = add_to_list(pending_server_pairs, s),
                       !.out = buf_list_send(
                                 r2p2_prepare_msg(<<ack_payload>>, ACK_MSG,
                                                  FIXED_ROUTE, gb.rid))]
               ELSE ServerSame
      IN AcceptRequestPacket(e, s, sp, gb, len)
  ELSE
    LET s == find_in_pending_server_pairs(gb.rid, source) IN
    IF s = 0 THEN assert_failed(ServerSame, 438)
    ELSE
      LET sp == server_pairs[s] IN
      IF OutOfOrder(gb.p_order, sp.request_received_packets)
      THEN \* lines 440-443: gb is neither chained to the pair nor freed
           ServerFail([ServerSame EXCEPT !.hist.gbLost = TRUE], s)
      ELSE AcceptRequestPacket(ServerSame, s,
             [sp EXCEPT !.request_received_packets = @ + 1], gb, len)

r2p2_send_response(handle, iov) ==
  LET sp == server_pairs[handle]
      reply == r2p2_prepare_msg(iov, RESPONSE_MSG, FIXED_ROUTE, sp.req_id)
  IN ServerFail([ServerSame EXCEPT !.out = buf_list_send(reply)], handle)

(* ------------------------------ actions ------------------------------- *)
ApplyClient(e) ==
  /\ client_pairs' = e.pairs
  /\ pending_client_pairs' = e.pending
  /\ timers' = e.timers
  /\ toServer' = toServer \o e.out
  /\ cb' = e.cb
  /\ doneDue' = e.doneDue
  /\ hist' = e.hist
  /\ aborted' = e.aborted

ApplyServer(e) ==
  /\ server_pairs' = e.pairs
  /\ pending_server_pairs' = e.pending
  /\ toClient' = toClient \o e.out
  /\ rfnLog' = e.rfnLog
  /\ srvDue' = e.srvDue
  /\ hist' = e.hist
  /\ aborted' = e.aborted

\* handle_incoming_pck, lines 474-487: len is asserted to hold a header (the
\* magic byte is not looked at); RESPONSE and ACK packets go to the client
\* state machine, everything else to the server state machine
handle_incoming_pck(gb, len, source, local_host) ==
  IF len < HEADER_SIZE
  THEN [client |-> local_host = ClientHost,
        e |-> IF local_host = ClientHost THEN assert_failed(ClientSame, 476)
              ELSE assert_failed(ServerSame, 476)]
  ELSE IF is_response(gb)
  THEN [client |-> TRUE, e |-> handle_response(gb, len, source, local_host)]
  ELSE [client |-> FALSE, e |-> handle_request(gb, len, source)]

\* the network hands over datagram i of a queue; keep: it stays queued
Taken(q, i, keep) == IF keep THEN q ELSE RemoveAt(q, i)

NetAfter(i, keep) ==
  [net EXCEPT !.dups = IF keep THEN @ + 1 ELSE @,
              !.reordered = @ \/ i > 1]

\* the originator's application sends a request.  rid is what rand() returns
\* (line 551); the header's rid is unique among the outstanding requests
\* (spec, data model), so draws that collide with a pending pair are left out
SendReq(shape, rid) ==
  /\ ~aborted
  /\ \A j \in 1..Len(pending_client_pairs) :
        client_pairs[pending_client_pairs[j]].req_id # rid
  /\ \/ /\ ApplyClient(r2p2_send_req(ReqVector(Len(reqs) + 1, shape),
                                     [arg |-> Len(reqs) + 1, rid |-> rid]))
        /\ reqs' = Append(reqs, [rid |-> rid,
                                 iov |-> ReqVector(Len(reqs) + 1, shape)])
        /\ UNCHANGED <<serverVars, rspLog, net, assembled>>
     \/ \* prepare_to_send fails: the pair is freed again, nothing is sent
        /\ alloc_object(client_pairs) # 0
        /\ UNCHANGED vars

\* the peer's transport upcall; only REQUEST packets travel to the peer
PeerRecv(i, keep) ==
  /\ ~aborted
  /\ i \in 1..Len(toServer)
  /\ keep => net.dups < MaxDup
  /\ LET gb == toServer[i]
         r == handle_incoming_pck(gb, gb.size, ClientHost, ServerHost)
     IN /\ ~r.client
        /\ toServer' = Taken(toServer, i, keep)
        /\ ApplyServer(r.e)
  /\ net' = NetAfter(i, keep)
  /\ UNCHANGED <<client_pairs, pending_client_pairs, timers, cb, doneDue,
                 reqs, rspLog, assembled>>

\* the originator's transport upcall; only RESPONSE and ACK packets travel
\* to the originator
ClientRecv(i, keep) ==
  /\ ~aborted
  /\ i \in 1..Len(toClient)
  /\ keep => net.dups < MaxDup
  /\ LET gb == toClient[i]
         r == handle_incoming_pck(gb, gb.size, ServerHost, ClientHost)
     IN /\ r.client
        /\ toClient' = Taken(toClient, i, keep)
        /\ ApplyClient(r.e)
  /\ net' = NetAfter(i, keep)
  /\ UNCHANGED <<server_pairs, pending_server_pairs, rfnLog, srvDue,
                 reqs, rspLog, assembled>>

\* the network loses a datagram
Drop(toPeer, i) ==
  /\ ~aborted
  /\ Len(net.lost) < MaxLost
  /\ i \in 1..Len(IF toPeer THEN toServer ELSE toClient)
  /\ IF toPeer
     THEN /\ toServer' = RemoveAt(toServer, i)
          /\ net' = [net EXCEPT !.lost = Append(@, toServer[i])]
          /\ UNCHANGED toClient
     ELSE /\ toClient' = RemoveAt(toClient, i)
          /\ net' = [net EXCEPT !.lost = Append(@, toClient[i])]
          /\ UNCHANGED toServer
  /\ UNCHANGED <<client_pairs, pending_client_pairs, timers, server_pairs,
                 pending_server_pairs, reqs, cb, doneDue, rfnLog, srvDue,
                 rspLog, hist, aborted, assembled>>

\* the timer armed for slot s fires
TimerFire(s) ==
  /\ ~aborted
  /\ timers[s]
  /\ ApplyClient([timer_triggered(s) EXCEPT !.timers[s] = FALSE])
  /\ UNCHANGED <<serverVars, reqs, rspLog, net, assembled>>

\* the peer's application answers a request its receive callback was given
SendResponse(k, shape) ==
  /\ ~aborted
  /\ k \in 1..Len(srvDue)
  /\ LET iov == RespVector(srvDue[k].tag, shape) IN
       /\ ApplyServer([r2p2_send_response(srvDue[k].h, iov)
                         EXCEPT !.srvDue = RemoveAt(srvDue, k)])
       /\ rspLog' = Append(rspLog, [tag |-> srvDue[k].tag, iov |-> iov])
  /\ UNCHANGED <<clientVars, reqs, net, assembled>>

\* the originator's application releases a handle success_cb gave it
RecvRespDone(k) ==
  /\ ~aborted
  /\ k \in 1..Len(doneDue)
  /\ ApplyClient([r2p2_recv_resp_done(doneDue[k])
                    EXCEPT !.doneDue = RemoveAt(doneDue, k)])
  /\ UNCHANGED <<serverVars, reqs, rspLog, net, assembled>>

\* datagrams that are not R2P2 packets: a single-packet message of the
\* engine with its magic byte changed, or cut short of a full header
WrongMagic(gb) == [gb EXCEPT !.magic = (MAGIC + 1) % 256]

Truncated(gb) == [gb EXCEPT !.size = HEADER_SIZE - 1, !.data = <<>>]

MalformedPackets ==
  LET whole == {r2p2_prepare_msg(<<<<0>>>>, t, FIXED_ROUTE, rid)[1] :
                  t \in {REQUEST_MSG, RESPONSE_MSG}, rid \in Rids}
  IN {WrongMagic(gb) : gb \in whole} \cup {Truncated(gb) : gb \in whole}

\* the transport hands a host a datagram that no engine sent
RawRecv(toPeer, gb) ==
  /\ ~aborted
  /\ net.raw < MaxRaw
  /\ LET r == IF toPeer
              THEN handle_incoming_pck(gb, gb.size, ClientHost, ServerHost)
              ELSE handle_incoming_pck(gb, gb.size, ServerHost, ClientHost)
     IN /\ r.client = ~toPeer
        /\ IF toPeer
           THEN ApplyServer(r.e) /\ UNCHANGED clientVars
           ELSE ApplyClient(r.e) /\ UNCHANGED serverVars
  /\ net' = [net EXCEPT !.raw = @ + 1]
  /\ UNCHANGED <<reqs, rspLog, assembled>>

MaxQueue == 8

\* every payload vector of at most MaxFrags fragments of at most MaxFragLen
\* bytes, zero-length fragments included, that carries at least one byte
MaxFrags == 3
MaxFragLen == 4

RECURSIVE Sum(_)
Sum(shape) == IF shape = <<>> THEN 0 ELSE Head(shape) + Sum(Tail(shape))

AsmShapes ==
  {shape \in UNION {[1..k -> 0..MaxFragLen] : k \in 1..MaxFrags} :
     Sum(shape) >= 1}

\* the vectors at the single/multi-packet boundary
BoundaryShapes ==
  {shape \in AsmShapes : Sum(shape) \in {PAYLOAD_SIZE, PAYLOAD_SIZE + 1}}

\* one-fragment payloads that r2p2_prepare_msg splits into n packets, for
\* every packet count the delivery vector has an entry for
BytesFor(n) == MIN_PAYLOAD_SIZE + ((n - 1) * PAYLOAD_SIZE)

LongShapes == {<<BytesFor(n)>> : n \in 1..to_app_iovec_entries}

\* r2p2_prepare_msg is called on an empty message
Assemble(shape, req_type, rid) ==
  /\ assembled.chain = <<>>
  /\ LET iov == MkVec(shape, 10) IN
       assembled' = [iov |-> iov,
                     chain |-> r2p2_prepare_msg(iov, req_type, FIXED_ROUTE, rid)]
  /\ UNCHANGED <<client_pairs, pending_client_pairs, timers, server_pairs,
                 pending_server_pairs, toServer, toClient, reqs, cb, doneDue,
                 rfnLog, srvDue, rspLog, net, hist, aborted>>

\* MaxReq requests; the network keeps the order and loses at most MaxLost
\* datagrams
Next ==
  \/ \E shape \in ReqShapes, rid \in Rids :
       Len(reqs) < MaxReq /\ SendReq(shape, rid)
  \/ PeerRecv(1, FALSE)
  \/ ClientRecv(1, FALSE)
  \/ \E toPeer \in BOOLEAN, i \in 1..MaxQueue : Drop(toPeer, i)
  \/ \E s \in 1..CLIENT_POOL : TimerFire(s)
  \/ \E k \in 1..MaxQueue, shape \in RespShapes : SendResponse(k, shape)
  \/ \E k \in 1..MaxQueue : RecvRespDone(k)

Spec == Init /\ [][Next]_vars

\* MaxSeqReq requests, so that a rid can be drawn again after its pair is
\* gone; the same network
NextSeq ==
  \/ \E shape \in ReqShapes, rid \in Rids :
       Len(reqs) < MaxSeqReq /\ SendReq(shape, rid)
  \/ PeerRecv(1, FALSE)
  \/ ClientRecv(1, FALSE)
  \/ \E toPeer \in BOOLEAN, i \in 1..MaxQueue : Drop(toPeer, i)
  \/ \E s \in 1..CLIENT_POOL : TimerFire(s)
  \/ \E k \in 1..MaxQueue, shape \in RespShapes : SendResponse(k, shape)
  \/ \E k \in 1..MaxQueue : RecvRespDone(k)

SpecSeq == Init /\ [][NextSeq]_vars

\* MaxReq requests; the network also reorders and duplicates (at most
\* MaxDup times)
NextNet ==
  \/ \E shape \in ReqShapes, rid \in Rids :
       Len(reqs) < MaxReq /\ SendReq(shape, rid)
  \/ \E i \in 1..MaxQueue, keep \in BOOLEAN : PeerRecv(i, keep)
  \/ \E i \in 1..MaxQueue, keep \in BOOLEAN : ClientRecv(i, keep)
  \/ \E toPeer \in BOOLEAN, i \in 1..MaxQueue : Drop(toPeer, i)
  \/ \E s \in 1..CLIENT_POOL : TimerFire(s)
  \/ \E k \in 1..MaxQueue, shape \in RespShapes : SendResponse(k, shape)
  \/ \E k \in 1..MaxQueue : RecvRespDone(k)

SpecNet == Init /\ [][NextNet]_vars

\* as Next, and the hosts also receive at most MaxRaw malformed datagrams
NextRaw ==
  \/ \E shape \in ReqShapes, rid \in Rids :
       Len(reqs) < MaxReq /\ SendReq(shape, rid)
  \/ PeerRecv(1, FALSE)
  \/ ClientRecv(1, FALSE)
  \/ \E toPeer \in BOOLEAN, gb \in MalformedPackets : RawRecv(toPeer, gb)
  \/ \E toPeer \in BOOLEAN, i \in 1..MaxQueue : Drop(toPeer, i)
  \/ \E s \in 1..CLIENT_POOL : TimerFire(s)
  \/ \E k \in 1..MaxQueue, shape \in RespShapes : SendResponse(k, shape)
  \/ \E k \in 1..MaxQueue : RecvRespDone(k)

SpecRaw == Init /\ [][NextRaw]_vars

\* the assembler alone, over all payload vectors of the bounds
NextAsm ==
  \E shape \in AsmShapes, req_type \in {REQUEST_MSG, RESPONSE_MSG},
     rid \in Rids : Assemble(shape, req_type, rid)

SpecAsm == Init /\ [][NextAsm]_vars

\* MaxReq requests whose payload is at the single/multi-packet boundary;
\* the network delivers every datagram once and in order
NextEdge ==
  \/ \E shape \in BoundaryShapes, rid \in Rids :
       Len(reqs) < MaxReq /\ SendReq(shape, rid)
  \/ PeerRecv(1, FALSE)
  \/ ClientRecv(1, FALSE)
  \/ \E k \in 1..MaxQueue, shape \in RespShapes : SendResponse(k, shape)
  \/ \E k \in 1..MaxQueue : RecvRespDone(k)

SpecEdge == Init /\ [][NextEdge]_vars

\* MaxReq requests, requests and responses of up to to_app_iovec_entries
\* packets; the network delivers every datagram once and in order
NextLong ==
  \/ \E shape \in LongShapes, rid \in Rids :
       Len(reqs) < MaxReq /\ SendReq(shape, rid)
  \/ PeerRecv(1, FALSE)
  \/ ClientRecv(1, FALSE)
  \/ \E k \in 1..MaxQueue, shape \in LongShapes : SendResponse(k, shape)
  \/ \E k \in 1..MaxQueue : RecvRespDone(k)

SpecLong == Init /\ [][NextLong]_vars

(* ============================== claims ================================ *)
\* the client pair currently allocated for request n
PairOf(n) ==
  {s \in 1..CLIENT_POOL : client_pairs[s].taken /\ client_pairs[s].arg = n}

\* no other request of the run drew the rid of request n
RidOnce(n) == \A m \in 1..Len(reqs) : m # n => reqs[m].rid # reqs[n].rid

Held(due, h) == \E k \in 1..Len(due) : due[k] = h

\* the request spanned more than one buffer when it was sent
SpansManyBuffers(cp) ==
  IF LINUX THEN Len(cp.request) > 1 ELSE Len(cp.request) > 0

\* C1: every client pair is freed at most once and never while it is free,
\* over lost, duplicated and reordered packets, timer fires and one
\* recv_resp_done per handle success_cb handed out.
C1_FreedExactlyOnce ==
  /\ ~hist.cpFreeWhileFree
  /\ \A n \in Args : hist.cpFrees[n] <= 1

\* C2 (scenario S6): between success_cb and recv_resp_done a late packet for
\* the pair is dropped: no step other than recv_resp_done changes the pair
\* or invokes one of its callbacks.
C2_LateDuplicateDropped ==
  [][\A s \in 1..CLIENT_POOL :
       (/\ client_pairs[s].taken
        /\ Held(doneDue, s)
        /\ Len(doneDue') >= Len(doneDue))
       => /\ client_pairs'[s] = client_pairs[s]
          /\ cb'[client_pairs[s].arg] = cb[client_pairs[s].arg]]_vars

\* C3: with the request's packets fed in order and none lost, the receive
\* callback is invoked at most once for the request, with an iovec whose
\* concatenation is the payload sent, and it has been invoked once all
\* packets are consumed and the request did not time out.
C3_RequestRoundTrip ==
  net.lost = <<>> =>
    \A n \in 1..Len(reqs) : RidOnce(n) =>
      LET got == {i \in 1..Len(rfnLog) : Tag(rfnLog[i].iovec) = n} IN
        /\ Cardinality(got) <= 1
        /\ \A i \in got : Concat(rfnLog[i].iovec) = Concat(reqs[n].iov)
        /\ (toServer = <<>> /\ toClient = <<>> /\ cb[n].timeout = 0 /\ ~aborted)
             => Cardinality(got) = 1

\* C4: with all packets fed in order and none lost, success_cb is invoked at
\* most once for the request, with an iovec whose concatenation is the
\* payload given to send_response, neither error_cb nor timeout_cb is
\* invoked, and after recv_resp_done the pair is not in the pending list.
C4_ResponseRoundTrip ==
  net.lost = <<>> =>
    \A n \in 1..Len(reqs) : (RidOnce(n) /\ cb[n].success # <<>>) =>
      /\ Len(cb[n].success) = 1
      /\ \E r \in 1..Len(rspLog) :
           /\ rspLog[r].tag = n
           /\ Concat(cb[n].success[1]) = Concat(rspLog[r].iov)
      /\ cb[n].error = 0 /\ cb[n].timeout = 0
      /\ (\A s \in PairOf(n) : ~Held(doneDue, s))
           => \A j \in 1..Len(pending_client_pairs) :
                client_pairs[pending_client_pairs[j]].arg # n

\* exactly one packet was lost, a packet of the multi-packet response to
\* request n, and everything else arrived in order and once
OneResponseLost(n) ==
  /\ Len(net.lost) = 1
  /\ ~net.reordered /\ net.dups = 0
  /\ get_type(net.lost[1]) = RESPONSE_MSG
  /\ net.lost[1].flags # {F_FLAG, L_FLAG}
  /\ net.lost[1].rid = reqs[n].rid
  /\ RidOnce(n)

\* C5: when the multi-packet response to a request loses exactly one packet
\* and the others arrive in order, the request never succeeds, error_cb and
\* timeout_cb are invoked at most once together, and exactly once by the
\* time the pair is gone.
C5_OneLossOneFailure ==
  \A n \in 1..Len(reqs) : OneResponseLost(n) =>
    /\ cb[n].success = <<>>
    /\ cb[n].error + cb[n].timeout <= 1
    /\ PairOf(n) = {} => cb[n].error + cb[n].timeout = 1

C5_Witness ==
  \E n \in 1..Len(reqs) :
    /\ OneResponseLost(n)
    /\ ~is_last(net.lost[1])
    /\ toClient = <<>>
    /\ cb[n].error = 1
    /\ PairOf(n) = {}

\* datagrams a step appended to the queue toward the peer
SentToPeer == SubSeq(toServer', Len(toServer) + 1, Len(toServer'))

\* C6: send_request transmits only the head and a multi-packet request
\* starts in W_ACK; the peer answers the first packet of a multi-packet
\* request with exactly one ACK and a single-packet request with none; the
\* buffers after the head are transmitted only in the step in which a pair
\* in W_ACK receives the ACK, and that step moves it to W_RESPONSE.
C6_HandshakeOrdering ==
  [][/\ Len(reqs') > Len(reqs) =>
          /\ Len(SentToPeer) = 1
          /\ is_first(SentToPeer[1])
          /\ \A s \in 1..CLIENT_POOL :
               (client_pairs'[s].taken /\ client_pairs'[s].arg = Len(reqs'))
                 => (client_pairs'[s].state = R2P2_W_ACK
                       <=> ~is_last(SentToPeer[1]))
     /\ (Len(reqs') = Len(reqs) /\ Len(toServer') > Len(toServer)) =>
          /\ toClient # <<>>
          /\ toClient' = Tail(toClient)
          /\ get_type(Head(toClient)) = ACK_MSG
          /\ \E s \in 1..CLIENT_POOL :
               /\ client_pairs[s].state = R2P2_W_ACK
               /\ client_pairs'[s].state = R2P2_W_RESPONSE
               /\ SentToPeer = buf_list_send(rest_to_send(client_pairs[s].request))
     /\ (Len(toServer') < Len(toServer) /\ net'.lost = net.lost) =>
          LET acks == SubSeq(toClient', Len(toClient) + 1, Len(toClient')) IN
            IF is_first(Head(toServer)) /\ ~is_last(Head(toServer))
            THEN Len(acks) = 1 /\ get_type(acks[1]) = ACK_MSG
            ELSE acks = <<>>]_vars

\* the request of server pair s was delivered and not yet answered
Delivered(s) == \E k \in 1..Len(srvDue) : srvDue[k].h = s

\* C7: a server pair is in the pending-server list iff reassembly of its
\* request is incomplete.
C7_PendingIffIncomplete ==
  \A s \in 1..SERVER_POOL : server_pairs[s].taken =>
    (InList(pending_server_pairs, s) <=> ~Delivered(s))

\* C8: from delivery to send_response the server pair stays allocated and
\* unchanged whatever packets arrive, and is never freed while free.
C8_DeliveredPairKept ==
  [][/\ \A k \in 1..Len(srvDue) :
          (server_pairs[srvDue[k].h].taken /\ Len(srvDue') >= Len(srvDue))
            => server_pairs'[srvDue[k].h] = server_pairs[srvDue[k].h]
     /\ ~hist'.spFreeWhileFree]_vars

\* C9: no two server pairs of the pending-server list have the same
\* (req_id, sender ip, sender port).
C9_PendingServerKeysUnique ==
  \A i, j \in 1..Len(pending_server_pairs) :
    (/\ i # j
     /\ server_pairs[pending_server_pairs[i]].req_id
          = server_pairs[pending_server_pairs[j]].req_id
     /\ server_pairs[pending_server_pairs[i]].sender
          = server_pairs[pending_server_pairs[j]].sender)
      => FALSE

\* C10 as stated: a pending client pair is in W_ACK iff its request spanned
\* more than one buffer at send time.
C10_AckIffMultiBuffer ==
  \A j \in 1..Len(pending_client_pairs) :
    LET cp == client_pairs[pending_client_pairs[j]] IN
      cp.state = R2P2_W_ACK <=> SpansManyBuffers(cp)

\* C10 as amended: a pending client pair is in W_ACK iff its request spanned
\* more than one buffer at send time and the pair has not yet handled an
\* inbound packet; otherwise it is in W_RESPONSE.
C10_AckIffMultiBufferBeforeAck ==
  \A j \in 1..Len(pending_client_pairs) :
    LET cp == client_pairs[pending_client_pairs[j]] IN
      /\ cp.state \in {R2P2_W_ACK, R2P2_W_RESPONSE}
      /\ cp.state = R2P2_W_ACK <=> (SpansManyBuffers(cp) /\ cp.reply_sender = NoHost)

C10_Witness ==
  \E j \in 1..Len(pending_client_pairs) :
    LET cp == client_pairs[pending_client_pairs[j]] IN
      /\ SpansManyBuffers(cp)
      /\ cp.state = R2P2_W_RESPONSE
      /\ cp.reply_sender # NoHost

\* the step is RawRecv: a host was handed a malformed datagram
RawStep == net'.raw > net.raw

\* C14: a malformed inbound packet (shorter than a header, or with a wrong
\* magic byte) is dropped silently: no pair is created, changed or freed,
\* nothing is sent, no callback is invoked, and the engine keeps running.
C14_MalformedDropped ==
  [][RawStep =>
       /\ UNCHANGED <<client_pairs, pending_client_pairs, server_pairs,
                      pending_server_pairs, toServer, toClient, cb, doneDue,
                      rfnLog, srvDue>>
       /\ ~aborted']_vars

\* the step is the peer's upcall for the datagram at the head of its queue
PeerTakesHead ==
  toServer # <<>> /\ toServer' = Tail(toServer) /\ net' = net

\* C17: when a non-first request packet arrives whose p_order differs from
\* the matching pending server pair's request_received_packets, the pair is
\* removed from the pending-server list and freed, the receive callback is
\* not invoked, and the arriving buffer is released.
C17_ServerOutOfOrder ==
  [][PeerTakesHead =>
       LET gb == Head(toServer)
           s == find_in_pending_server_pairs(gb.rid, ClientHost)
       IN (/\ ~is_first(gb)
           /\ s # 0
           /\ OutOfOrder(gb.p_order, server_pairs[s].request_received_packets))
          => /\ ~InList(pending_server_pairs', s)
             /\ ~server_pairs'[s].taken
             /\ rfnLog' = rfnLog
             /\ hist'.gbLost = hist.gbLost]_vars

\* the assertions on the way of an inbound packet that do not guard a pool
\* or the delivery vector: lines 383, 384 (handle_response), 438
\* (handle_request) and 476 (handle_incoming_pck)
PacketAssertions == {383, 384, 438, 476}

\* C19: with pools not exhausted and messages of at most 254 packets, no
\* sequence of lost, duplicated or reordered packets that carry a full
\* header makes an assertion of handle_incoming_pck fail.
C19_NoAssertionOnPackets ==
  hist.failed \notin PacketAssertions

\* the place of a packet in its message, read from its header: the first
\* packet is 1, a later packet carries its place less one in p_order
SeqNo(gb) == IF is_first(gb) THEN 1 ELSE gb.p_order + 1

LastOf(chain) == chain[Len(chain)]

\* C13: while a pair lives, reply_received_packets (client pair) and
\* request_received_packets (server pair) never decrease, and after a
\* packet is accepted into the pair's chain the counter is the sequence
\* number of that packet, also when a first packet is repeated.
C13_CountersMonotone ==
  [][/\ \A s \in 1..CLIENT_POOL :
          (/\ client_pairs[s].taken /\ client_pairs'[s].taken
           /\ client_pairs'[s].arg = client_pairs[s].arg)
          => /\ client_pairs'[s].reply_received_packets
                  >= client_pairs[s].reply_received_packets
             /\ Len(client_pairs'[s].reply) > Len(client_pairs[s].reply)
                  => client_pairs'[s].reply_received_packets
                       = SeqNo(LastOf(client_pairs'[s].reply))
     /\ \A s \in 1..SERVER_POOL :
          (server_pairs[s].taken /\ server_pairs'[s].taken)
          => /\ server_pairs'[s].request_received_packets
                  >= server_pairs[s].request_received_packets
             /\ Len(server_pairs'[s].request) > Len(server_pairs[s].request)
                  => server_pairs'[s].request_received_packets
                       = SeqNo(LastOf(server_pairs'[s].request))]_vars

\* the counters of client pair cp once it has taken packet gb (lines 343-347)
ReceivedAfter(cp, gb) ==
  IF is_first(gb) THEN 1 ELSE cp.reply_received_packets + 1

ExpectedAfter(cp, gb) ==
  IF is_first(gb) THEN gb.p_order ELSE cp.reply_expected_packets

\* packet gb is out of sequence for client pair cp, or closes a message
\* whose packet count is not the one announced
BreaksSequence(cp, gb) ==
  \/ ~is_first(gb) /\ OutOfOrder(gb.p_order, cp.reply_received_packets)
  \/ is_last(gb) /\ ReceivedAfter(cp, gb) # ExpectedAfter(cp, gb)

\* C15: when a client pair in W_RESPONSE receives a non-first packet whose
\* p_order differs from reply_received_packets, or a last packet with
\* reply_received_packets different from reply_expected_packets, error_cb is
\* invoked, for the first and only time for that request, success_cb is not
\* invoked, and the pair is removed from the pending-client list and freed.
C15_OutOfOrderResponse ==
  [][\A i \in 1..MaxQueue, keep \in BOOLEAN :
       ClientRecv(i, keep) =>
         LET gb == toClient[i]
             s == find_in_pending_client_pairs(gb.rid, ClientHost)
         IN (s # 0 /\ client_pairs[s].state = R2P2_W_RESPONSE
                   /\ BreaksSequence(client_pairs[s], gb))
            => LET n == client_pairs[s].arg IN
                 /\ cb[n].error = 0 /\ cb'[n].error = 1
                 /\ cb'[n].success = cb[n].success
                 /\ cb'[n].timeout = cb[n].timeout
                 /\ ~InList(pending_client_pairs', s)
                 /\ ~client_pairs'[s].taken
                 /\ hist'.cpFrees[n] = hist.cpFrees[n] + 1]_vars

\* an out-of-order failure has happened on a network that reorders: the
\* request failed with error_cb, never timed out, and its pair is gone
C15_Witness ==
  \E n \in 1..Len(reqs) :
    /\ net.reordered /\ net.lost = <<>>
    /\ cb[n].error = 1 /\ cb[n].timeout = 0
    /\ PairOf(n) = {}
    /\ pending_client_pairs = <<>>

\* C16: when timer_triggered runs for a client pair that is still
\* allocated, timeout_cb is invoked, for the first and only time for that
\* request, no other callback is invoked, and the pair is removed from the
\* pending-client list and freed; when it runs for a pair that is no longer
\* allocated, no callback is invoked and nothing changes.
C16_Timeout ==
  [][\A s \in 1..CLIENT_POOL :
       TimerFire(s) =>
         IF client_pairs[s].taken
         THEN LET n == client_pairs[s].arg IN
                /\ cb[n].timeout = 0 /\ cb'[n].timeout = 1
                /\ cb'[n].success = cb[n].success
                /\ cb'[n].error = cb[n].error
                /\ \A m \in Args : m # n => cb'[m] = cb[m]
                /\ ~InList(pending_client_pairs', s)
                /\ ~client_pairs'[s].taken
                /\ hist'.cpFrees[n] = hist.cpFrees[n] + 1
         ELSE UNCHANGED <<client_pairs, pending_client_pairs, toServer, cb,
                          doneDue, hist, aborted>>]_vars

\* scenario S5: a single-packet request timed out before any response; its
\* pair is gone and the pending list is empty
C16_Witness ==
  \E n \in 1..Len(reqs) :
    /\ cb[n].timeout = 1 /\ cb[n].error = 0 /\ cb[n].success = <<>>
    /\ Len(reqs[n].iov) = 1
    /\ PairOf(n) = {}
    /\ pending_client_pairs = <<>>
    /\ hist.cpFrees[n] = 1

\* success_cb is invoked for the request of client pair s in this step
SuccessStep(s) ==
  /\ client_pairs[s].taken
  /\ Len(cb'[client_pairs[s].arg].success) > Len(cb[client_pairs[s].arg].success)

\* C20: success_cb is invoked only with the payload of RESPONSE packets: no
\* ACK packet that reaches a client pair in W_RESPONSE makes success_cb run
\* or becomes part of the reply handed to the application.
C20_AckNeverDelivered ==
  [][\A s \in 1..CLIENT_POOL :
       SuccessStep(s) =>
         \A i \in 1..Len(client_pairs'[s].reply) :
           get_type(client_pairs'[s].reply[i]) = RESPONSE_MSG]_vars

\* the request the step has sent, its pair and the datagram put on the wire
NewRequest == reqs'[Len(reqs')]

NewPair == client_pairs'[CHOOSE s \in 1..CLIENT_POOL :
                           /\ client_pairs'[s].taken
                           /\ client_pairs'[s].arg = Len(reqs')]

\* the request whose first packet is at the head of the peer's queue
HeadRequest ==
  reqs[CHOOSE n \in 1..Len(reqs) : reqs[n].rid = Head(toServer).rid]

AcksSent == SubSeq(toClient', Len(toClient) + 1, Len(toClient'))

\* C11: a payload vector of exactly PAYLOAD_SIZE bytes, however split, is
\* sent as one buffer, leaves the pair in W_RESPONSE and is not answered by
\* an ACK; one of PAYLOAD_SIZE + 1 bytes is sent as several buffers, the
\* first carrying MIN_PAYLOAD_SIZE bytes, starts the pair in W_ACK and is
\* answered by one ACK.
C11_PacketBoundary ==
  [][/\ Len(reqs') > Len(reqs) =>
          /\ SumLen(NewRequest.iov) = PAYLOAD_SIZE =>
                /\ Len(NewPair.request) = 1
                /\ NewPair.state = R2P2_W_RESPONSE
                /\ is_last(SentToPeer[1])
          /\ SumLen(NewRequest.iov) = PAYLOAD_SIZE + 1 =>
                /\ Len(NewPair.request) > 1
                /\ Len(SentToPeer[1].data) = MIN_PAYLOAD_SIZE
                /\ NewPair.state = R2P2_W_ACK
                /\ ~is_last(SentToPeer[1])
     /\ (PeerTakesHead /\ is_first(Head(toServer))) =>
          /\ SumLen(HeadRequest.iov) = PAYLOAD_SIZE => AcksSent = <<>>
          /\ SumLen(HeadRequest.iov) = PAYLOAD_SIZE + 1 =>
                /\ Len(AcksSent) = 1
                /\ get_type(AcksSent[1]) = ACK_MSG]_vars

\* C12: in every multi-packet message assembled by r2p2_prepare_msg the head
\* has F_FLAG set, L_FLAG clear and p_order equal to the number of packets,
\* the tail has L_FLAG set, and the packets between them carry in p_order
\* their sequence number, which starts at 1 with the packet after the head.
C12_MultiPacketHeaders ==
  LET chain == assembled.chain
      n == Len(chain)
  IN n > 1 =>
       /\ is_first(chain[1]) /\ ~is_last(chain[1])
       /\ chain[1].p_order = n
       /\ is_last(chain[n])
       /\ \A k \in 2..(n - 1) : chain[k].p_order = k - 1

\* a message of two intermediate packets was assembled from a vector that
\* has a zero-length fragment
C12_Witness ==
  /\ Len(assembled.chain) = 4
  /\ \E i \in 1..Len(assembled.iov) : assembled.iov[i] = <<>>
  /\ assembled.chain[2].p_order = 1
  /\ assembled.chain[3].p_order = 2

\* C18: the delivery vector holds up to to_app_iovec_entries (255) entries:
\* a message of n packets that arrives complete and in order is handed to
\* the application without the assertion of prepare_to_app_iovec failing,
\* for every n from 1 to to_app_iovec_entries.
C18_VectorHoldsAllEntries ==
  (\A n \in 1..Len(reqs) :
      Len(r2p2_prepare_msg(reqs[n].iov, REQUEST_MSG, FIXED_ROUTE, reqs[n].rid))
        <= to_app_iovec_entries)
  /\ (\A r \in 1..Len(rspLog) :
      Len(r2p2_prepare_msg(rspLog[r].iov, RESPONSE_MSG, FIXED_ROUTE, 1))
        <= to_app_iovec_entries)
  => hist.failed # 200

====
